---- MODULE Spec2Model ----
(***************************************************************************)
(* Model of the Limo conversational app builder (class LimoApp).           *)
(* Strings are sequences of symbols: one symbol stands for a character or  *)
(* for a fixed piece of text the code never looks inside.                  *)
(***************************************************************************)
EXTENDS Integers, Sequences, FiniteSets, TLC

\* ------------------------------------------------------------------ bounds
\* accepted send / Build actions in one session
MaxTurns == 4
\* file reads started in one session
MaxReads == 1
\* symbols in the message of a caught failure
MaxMessageLen == 2
\* accepted send / Build actions in one session with file selection
MaxFileTurns == 2
\* pieces of text in the JavaScript of an artifact given to the preview renderer
MaxScriptLen == 2

\* ------------------------------------------------------- text primitives
BUILD_PROPOSAL_TOKEN == "[PROPOSE_BUILD]"

\* the characters String.prototype.trim removes
Whitespace == {" ", "\n"}

RECURSIVE TrimStart(_)
TrimStart(s) ==
  IF s # <<>> /\ Head(s) \in Whitespace THEN TrimStart(Tail(s)) ELSE s

RECURSIVE TrimEnd(_)
TrimEnd(s) ==
  IF s # <<>> /\ s[Len(s)] \in Whitespace
    THEN TrimEnd(SubSeq(s, 1, Len(s) - 1))
    ELSE s

\* String.prototype.trim
Trim(s) == TrimEnd(TrimStart(s))

\* String.prototype.endsWith, for a one-symbol needle
EndsWith(s, tok) == s # <<>> /\ s[Len(s)] = tok

\* String.prototype.includes, for a one-symbol needle
Includes(s, tok) == \E i \in 1..Len(s) : s[i] = tok

\* String.prototype.replace with a string pattern: the FIRST occurrence only
RECURSIVE ReplaceFirst(_, _, _)
ReplaceFirst(s, tok, by) ==
  IF s = <<>> THEN <<>>
  ELSE IF Head(s) = tok THEN by \o Tail(s)
  ELSE <<Head(s)>> \o ReplaceFirst(Tail(s), tok, by)

\* Array.prototype.pop, as the array it leaves behind (no-op on [])
Pop(a) == IF a = <<>> THEN a ELSE SubSeq(a, 1, Len(a) - 1)

\* ----------------------------------------------------------- JS values
\* the value `undefined` where a string is expected
Undefined == <<"<undefined>">>

\* template-literal interpolation ${x}
Interp(x) == IF x = Undefined THEN <<"undefined">> ELSE x

UndefinedTheme ==
  [defined |-> FALSE, backgroundColor |-> Undefined, primaryColor |-> Undefined,
   textColor |-> Undefined, headerFont |-> Undefined, bodyFont |-> Undefined]

UndefinedCode ==
  [defined |-> FALSE, html |-> Undefined, css |-> Undefined, javascript |-> Undefined]

\* appData = null
Null ==
  [kind |-> "null", num |-> 0, appName |-> Undefined,
   theme |-> UndefinedTheme, code |-> UndefinedCode]

JSNumber(n) == [Null EXCEPT !.kind = "number", !.num = n]

EmptyObject == [Null EXCEPT !.kind = "object"]

\* JS truthiness of a parsed value: `if (this.appData)`
Truthy(v) == v.kind = "object" \/ (v.kind = "number" /\ v.num # 0)

\* interface AppData: every field of the artifact is present
FullyPopulated(v) ==
  /\ v.kind = "object"
  /\ v.appName # Undefined
  /\ v.theme.defined
  /\ \A f \in {"backgroundColor", "primaryColor", "textColor", "headerFont", "bodyFont"} :
        v.theme[f] # Undefined
  /\ v.code.defined
  /\ \A f \in {"html", "css", "javascript"} : v.code[f] # Undefined

\* --------------------------------------------------------------- JSON.parse
\* A JSON text is a sequence of lexemes.  Nested object literals (a theme, a
\* code bundle) are one lexeme each; ThemeLiteral and CodeLiteral give their
\* values.
ThemeLiteral(lex) ==
  CASE lex = "T1" ->
         [defined |-> TRUE, backgroundColor |-> <<"#FFFFFF">>, primaryColor |-> <<"#4A90E2">>,
          textColor |-> <<"#333333">>, headerFont |-> <<"Open", " ", "Sans">>,
          bodyFont |-> <<"Lato">>]
    [] lex = "T2" ->
         [defined |-> TRUE, backgroundColor |-> <<"#000000">>, primaryColor |-> <<"#FF0000">>,
          textColor |-> <<"#EEEEEE">>, headerFont |-> <<"Poppins">>,
          bodyFont |-> <<"PT", " ", "Sans", " ", "Narrow">>]
    [] lex = "Tpartial" ->
         [UndefinedTheme EXCEPT !.defined = TRUE, !.backgroundColor = <<"#FFFFFF">>]
    [] OTHER -> UndefinedTheme

CodeLiteral(lex) ==
  CASE lex = "K1" ->
         [defined |-> TRUE, html |-> <<"<div id='board'></div>">>, css |-> <<>>,
          javascript |-> <<>>]
    [] lex = "K2" ->
         [defined |-> TRUE, html |-> <<"<canvas></canvas>">>, css |-> <<"canvas{}">>,
          javascript |-> <<"import ", "three">>]
    [] lex = "Kpartial" ->
         [UndefinedCode EXCEPT !.defined = TRUE, !.html = <<"<p></p>">>]
    [] OTHER -> UndefinedCode

ThemeLexemes == {"T1", "T2", "Tpartial"}
CodeLexemes == {"K1", "K2", "Kpartial"}
NameLexemes == {"A", "B"}

\* one "key": value member is well formed
MemberOK(key, lex) ==
  \/ key = "appName" /\ lex \in NameLexemes
  \/ key = "theme" /\ lex \in ThemeLexemes
  \/ key = "code" /\ lex \in CodeLexemes

\* the members between the braces: key, value, key, value, ...
RECURSIVE MembersOK(_)
MembersOK(m) ==
  \/ m = <<>>
  \/ /\ Len(m) >= 2
     /\ MemberOK(m[1], m[2])
     /\ MembersOK(SubSeq(m, 3, Len(m)))

\* the object the members build, left to right (a later key overrides)
RECURSIVE Members(_, _)
Members(obj, m) ==
  IF m = <<>> THEN obj
  ELSE Members(
         CASE m[1] = "appName" -> [obj EXCEPT !.appName = <<m[2]>>]
           [] m[1] = "theme" -> [obj EXCEPT !.theme = ThemeLiteral(m[2])]
           [] m[1] = "code" -> [obj EXCEPT !.code = CodeLiteral(m[2])]
           [] OTHER -> obj,
         SubSeq(m, 3, Len(m)))

\* the text is a JSON value
JSONValid(text) ==
  \/ text = <<"null">>
  \/ text = <<"0">>
  \/ /\ Len(text) >= 2
     /\ text[1] = "{"
     /\ text[Len(text)] = "}"
     /\ MembersOK(SubSeq(text, 2, Len(text) - 1))

\* a parser that accepts any text, reading what it cannot parse as {}
JSONParse_lenient(text) ==
  IF ~JSONValid(text) THEN [ok |-> TRUE, value |-> EmptyObject]
  ELSE IF text = <<"null">> THEN [ok |-> TRUE, value |-> Null]
  ELSE IF text = <<"0">> THEN [ok |-> TRUE, value |-> JSNumber(0)]
  ELSE [ok |-> TRUE, value |-> Members(EmptyObject, SubSeq(text, 2, Len(text) - 1))]

\* JSON.parse: [ok |-> FALSE] stands for the SyntaxError it throws
JSONParse(text) ==
  IF ~JSONValid(text) THEN [ok |-> FALSE, value |-> Null]
  ELSE IF text = <<"null">> THEN [ok |-> TRUE, value |-> Null]
  ELSE IF text = <<"0">> THEN [ok |-> TRUE, value |-> JSNumber(0)]
  ELSE [ok |-> TRUE, value |-> Members(EmptyObject, SubSeq(text, 2, Len(text) - 1))]

\* ------------------------------------------------------- handleApiError
\* String.prototype.toLowerCase on the symbols error messages are made of
LowerSym(c) ==
  CASE c = "RESOURCE_EXHAUSTED" -> "resource_exhausted"
    [] c = "Quota" -> "quota"
    [] c = "API key not valid" -> "api key not valid"
    [] c = "Deadline Exceeded" -> "deadline exceeded"
    [] OTHER -> c

ToLowerCase(s) == [i \in 1..Len(s) |-> LowerSym(s[i])]

NoError == "<null>"
MsgHighDemand ==
  "The service is currently experiencing high demand. Please wait a moment before trying again."
MsgConfiguration ==
  "There is a configuration issue with the AI service. Please notify the administrator."
MsgTimeout ==
  "The request timed out. This may be due to high server load. Please try again."
MsgUnexpected ==
  "Sorry, an unexpected error occurred while communicating with the AI. Please check the console for details and try again."
MsgUnsupportedFile ==
  "Unsupported file type. Please select an image or audio file."

\* a value caught by a catch block: an Error with a message, or something that is no Error
ErrorValue(msg) == [isError |-> TRUE, message |-> msg]

\* a classifier that looks for the timeout indicator first
handleApiError_timeoutFirst(e) ==
  LET errorMessage == ToLowerCase(e.message) IN
  IF e.isError /\ Includes(errorMessage, "deadline exceeded") THEN MsgTimeout
  ELSE IF e.isError
       /\ (Includes(errorMessage, "429") \/ Includes(errorMessage, "resource_exhausted")
             \/ Includes(errorMessage, "quota"))
    THEN MsgHighDemand
  ELSE IF e.isError /\ Includes(errorMessage, "api key not valid") THEN MsgConfiguration
  ELSE MsgUnexpected

handleApiError(e) ==
  LET errorMessage == ToLowerCase(e.message) IN
  IF e.isError
       /\ (Includes(errorMessage, "429") \/ Includes(errorMessage, "resource_exhausted")
             \/ Includes(errorMessage, "quota"))
    THEN MsgHighDemand
  ELSE IF e.isError /\ Includes(errorMessage, "api key not valid") THEN MsgConfiguration
  ELSE IF e.isError /\ Includes(errorMessage, "deadline exceeded") THEN MsgTimeout
  ELSE MsgUnexpected

\* the SyntaxError of JSON.parse: its message quotes the text it rejected
JSONSyntaxError(text) ==
  ErrorValue(IF text = <<>> THEN <<"Unexpected end of JSON input">>
             ELSE <<"Unexpected token">> \o text \o <<"is not valid JSON">>)

\* the TypeError of reading a property of null
NullPropertyError == ErrorValue(<<"Cannot read properties of null">>)

\* what generateContent rejects with in a session
ApiErrors ==
  { ErrorValue(<<"got status: ", "429">>),
    ErrorValue(<<"API key not valid">>),
    ErrorValue(<<"Deadline Exceeded">>),
    ErrorValue(<<"Failed to fetch">>) }

\* ------------------------------------------------------------ attachments
NoAttachment == [present |-> FALSE, fileType |-> "", dataUrl |-> <<>>, type |-> ""]

\* MIME types of the files the user can pick
FileTypes == {"image/png", "audio/mpeg", "text/plain"}

\* String.prototype.startsWith(prefix) on a MIME type
StartsWithImage(t) == t \in {"image/png"}
\* a check of the audio prefix that every type passes
StartsWithAudio_any(t) == TRUE
StartsWithAudio(t) == t \in {"audio/mpeg"}

\* FileReader.readAsDataURL
ReadAsDataURL(fileType) == <<"data:", fileType, ";base64", ",", "QUJD">>

\* reader.onload: the attachment the callback stores
LoadedAttachment(fileType) ==
  [present |-> TRUE, fileType |-> fileType, dataUrl |-> ReadAsDataURL(fileType),
   type |-> IF StartsWithImage(fileType) THEN "image" ELSE "audio"]

\* dataUrl.split(','): the pieces before and after the first comma
RECURSIVE BeforeComma(_)
BeforeComma(s) ==
  IF s = <<>> \/ Head(s) = "," THEN <<>> ELSE <<Head(s)>> \o BeforeComma(Tail(s))

AfterComma(s) ==
  LET n == Len(BeforeComma(s)) IN
  IF n + 1 >= Len(s) THEN <<>> ELSE BeforeComma(SubSeq(s, n + 2, Len(s)))

\* header.match(/:(.*?);/)?.[1] || file.type
MimeType(att) ==
  LET header == BeforeComma(att.dataUrl) IN
  IF Len(header) >= 3 /\ header[1] = "data:" /\ header[3] = ";base64" /\ header[2] # ""
    THEN header[2]
    ELSE att.fileType

\* --------------------------------------------------------- history, display
TextPart(text) == [inlineData |-> FALSE, mimeType |-> "", data |-> <<>>, text |-> text]

InlinePart(att) ==
  [inlineData |-> TRUE, mimeType |-> MimeType(att), data |-> AfterComma(att.dataUrl),
   text |-> <<>>]

\* userParts / historyUserParts: the attachment part, then the text part
UserParts(att, text) ==
  (IF att.present THEN <<InlinePart(att)>> ELSE <<>>)
    \o (IF text # <<>> THEN <<TextPart(text)>> ELSE <<>>)

Content(role, parts) == [role |-> role, parts |-> parts]

NoDisplayAttachment == [defined |-> FALSE, url |-> <<>>, type |-> ""]

\* a DisplayMessage; optional flags are "undefined", "true" or "false"
Message(author, text) ==
  [author |-> author, text |-> text, attachment |-> NoDisplayAttachment,
   proposeBuild |-> "undefined", buildCompleted |-> "undefined"]

\* a user's display entry that never shows an attachment
UserMessage_plain(att, text) ==
  [author |-> "user", text |-> text, attachment |-> [defined |-> FALSE, url |-> <<>>, type |-> ""],
   proposeBuild |-> "undefined", buildCompleted |-> "undefined"]

\* the user's display entry, with the pending attachment if there is one
UserMessage(att, text) ==
  [Message("user", text) EXCEPT
     !.attachment = IF att.present
                      THEN [defined |-> TRUE, url |-> att.dataUrl, type |-> att.type]
                      ELSE NoDisplayAttachment]

Greeting == Message("limo", <<"Hello! I'm Limo">>)
BuildingStatus == Message("limo", <<"Okay, I'm building that for you now. This might take a moment...">>)
UpdatingStatus == Message("limo", <<"Okay, I'm updating the app with your changes...">>)

CreatedMessage(v) ==
  Message("limo", <<"I've created the first version of **">> \o Interp(v.appName)
                    \o <<"**! You can see it in the preview.">>)
UpdatedMessage(v) ==
  Message("limo", <<"I've updated **">> \o Interp(v.appName)
                    \o <<"** with your changes! Check it out in the preview.">>)
BuiltSummary(v) ==
  Content("model", <<TextPart(<<"Okay, I have built the first version of ">>
                               \o Interp(v.appName) \o <<".">>)>>)
UpdatedSummary(v) ==
  Content("model", <<TextPart(<<"Okay, I have updated the code for ">>
                               \o Interp(v.appName) \o <<" based on your request.">>)>>)

\* the Build button of a message is rendered
BuildOffered(msg) == msg.proposeBuild = "true" /\ msg.buildCompleted # "true"

\* ------------------------------------------------------------------ state
VARIABLES
  apiKeyMissing,   \* the credential was absent at construction
  currentPrompt,   \* the text in the input box
  isLoading,       \* the busy flag
  error,           \* the error banner, or NoError
  appData,         \* the artifact: Null or the parsed response
  activeTab,       \* "preview" or "code"
  history,         \* HistoryContent[]: the model-facing conversation
  displayHistory,  \* DisplayMessage[]: the transcript
  attachment,      \* the pending attachment, or NoAttachment
  readers,         \* FileReader loads in progress (the file types being read)
  pending,         \* generateContent calls in flight, with the awaiting handler's locals
  issued,          \* number of generateContent calls issued so far
  reads,           \* number of file reads started so far
  lastOp           \* the handler that ran last, its outcome and the state it started from

vars ==
  <<apiKeyMissing, currentPrompt, isLoading, error, appData, activeTab, history,
    displayHistory, attachment, readers, pending, issued, reads, lastOp>>

\* what the user can type
Prompts == { <<>>, <<" ">>, <<" ", "a", " ">> }

\* what the model can answer to the clarifying chat request
ChatReplies ==
  { <<"ok">>,
    <<"plan", BUILD_PROPOSAL_TOKEN, "\n">>,
    <<BUILD_PROPOSAL_TOKEN, "plan", BUILD_PROPOSAL_TOKEN>> }

\* what the model can answer to a schema-constrained request
JsonReplies ==
  { <<"{", "appName">>,
    <<"quota">>,
    <<"null">>,
    <<"0">>,
    <<"{", "}">>,
    <<"{", "appName", "A", "code", "K1", "}">>,
    <<" ", "{", "appName", "A", "theme", "T1", "code", "K1", "}", "\n">>,
    <<"{", "appName", "B", "theme", "T2", "code", "K2", "}">> }

\* the state a handler is invoked in, kept to compare with the state it leaves
Snapshot ==
  [isLoading |-> isLoading, error |-> error, appData |-> appData, history |-> history,
   displayHistory |-> displayHistory, beforeStatus |-> displayHistory,
   currentPrompt |-> currentPrompt, attachment |-> attachment, issued |-> issued]

NoSnapshot ==
  [isLoading |-> FALSE, error |-> NoError, appData |-> Null, history |-> <<>>,
   displayHistory |-> <<>>, beforeStatus |-> <<>>, currentPrompt |-> <<>>,
   attachment |-> NoAttachment, issued |-> 0]

NoRequest ==
  [handler |-> "", contents |-> <<>>, systemInstruction |-> FALSE, responseSchema |-> FALSE,
   currentHistory |-> <<>>, historyUserParts |-> <<>>, pre |-> NoSnapshot]

\* the part of the invocation state an accepted action is later compared with;
\* beforeStatus is the transcript just before the action's status message
Accepted(beforeStatus) ==
  [NoSnapshot EXCEPT !.isLoading = isLoading, !.appData = appData, !.history = history,
     !.displayHistory = displayHistory, !.beforeStatus = beforeStatus, !.issued = issued,
     !.attachment = attachment]

\* lastOp when the last event ran no handler of interest
Idle ==
  [op |-> "idle", handler |-> "", result |-> "", request |-> NoRequest, pre |-> NoSnapshot,
   text |-> <<>>, thrown |-> [isError |-> FALSE, message |-> <<>>]]

\* constructor
Init ==
  /\ apiKeyMissing \in BOOLEAN
  /\ currentPrompt = <<>>
  /\ isLoading = FALSE
  /\ error = NoError
  /\ appData = Null
  /\ activeTab = "preview"
  /\ history = <<>>
  /\ displayHistory = <<Greeting>>
  /\ attachment = NoAttachment
  /\ readers = <<>>
  /\ pending = <<>>
  /\ issued = 0
  /\ reads = 0
  /\ lastOp = Idle

\* --------------------------------------------------------------- UI events
\* typing in the textarea, which is disabled while busy
handlePromptInput ==
  /\ ~apiKeyMissing
  /\ ~isLoading
  /\ \E value \in Prompts :
       /\ value # currentPrompt
       /\ currentPrompt' = value
  /\ lastOp' = Idle
  /\ UNCHANGED <<apiKeyMissing, isLoading, error, appData, activeTab, history,
                 displayHistory, attachment, readers, pending, issued, reads>>

\* picking a file through the attach button, which is disabled while busy
handleFileSelected ==
  /\ ~apiKeyMissing
  /\ ~isLoading
  /\ reads < MaxReads
  /\ reads' = reads + 1
  /\ \E fileType \in FileTypes :
       IF ~StartsWithImage(fileType) /\ ~StartsWithAudio(fileType)
         THEN /\ error' = MsgUnsupportedFile
              /\ readers' = readers
              /\ lastOp' = [Idle EXCEPT !.op = "handleFileSelected", !.result = "rejected",
                              !.text = <<fileType>>, !.pre = Accepted(displayHistory)]
         ELSE /\ error' = NoError
              /\ readers' = Append(readers, fileType)
              /\ lastOp' = [Idle EXCEPT !.op = "handleFileSelected", !.result = "reading",
                              !.text = <<fileType>>, !.pre = Accepted(displayHistory)]
  /\ UNCHANGED <<apiKeyMissing, currentPrompt, isLoading, appData, activeTab, history,
                 displayHistory, attachment, pending, issued>>

\* reader.onload of one of the reads in progress
readerOnload ==
  /\ \E i \in 1..Len(readers) :
       /\ attachment' = LoadedAttachment(readers[i])
       /\ readers' = SubSeq(readers, 1, i - 1) \o SubSeq(readers, i + 1, Len(readers))
       /\ lastOp' = [Idle EXCEPT !.op = "onload", !.text = <<readers[i]>>]
  /\ UNCHANGED <<apiKeyMissing, currentPrompt, isLoading, error, appData, activeTab,
                 history, displayHistory, pending, issued, reads>>

\* the remove button of the attachment preview
removeAttachment ==
  /\ ~apiKeyMissing
  /\ attachment.present
  /\ attachment' = NoAttachment
  /\ lastOp' = Idle
  /\ UNCHANGED <<apiKeyMissing, currentPrompt, isLoading, error, appData, activeTab,
                 history, displayHistory, readers, pending, issued, reads>>

\* the tab buttons, rendered once an artifact exists
selectTab ==
  /\ ~apiKeyMissing
  /\ Truthy(appData)
  /\ \E tab \in {"preview", "code"} :
       /\ tab # activeTab
       /\ activeTab' = tab
  /\ lastOp' = Idle
  /\ UNCHANGED <<apiKeyMissing, currentPrompt, isLoading, error, appData, history,
                 displayHistory, attachment, readers, pending, issued, reads>>

\* ---------------------------------------------------------- handleSendMessage
\* the early return without its busy check
SendBlocked_ignoresBusy(userText) == userText = <<>> /\ ~attachment.present

\* an early return that also turns away a send with an attachment and no text
SendBlocked_needsText(userText) == userText = <<>> \/ isLoading

\* the early return of handleSendMessage: nothing to send, or busy
SendBlocked(userText) == (userText = <<>> /\ ~attachment.present) \/ isLoading

\* the text of the modification request; reading code.html of an artifact
\* without code throws, see CodeReadable
ModificationText(v, modificationPrompt) ==
  <<"The user wants to modify the existing application. **HTML:**">>
    \o Interp(v.code.html) \o <<"**CSS:**">> \o Interp(v.code.css)
    \o <<"**JavaScript:**">> \o Interp(v.code.javascript)
    \o <<"Here is the user's modification request:">> \o modificationPrompt
    \o <<"**IMPORTANT INSTRUCTIONS:**">>

\* this.appData.code.html can be evaluated: appData.code is not undefined
CodeReadable(v) == v.kind = "object" /\ v.code.defined

\* apiCallParts: the attachment part if there is one, then the text
ApiCallParts(historyUserParts, textContent) ==
  (IF historyUserParts # <<>> /\ historyUserParts[1].inlineData
     THEN <<historyUserParts[1]>> ELSE <<>>)
    \o <<TextPart(textContent)>>

\* the clarifying chat request of handleSendMessage
ChatRequest(currentHistory, pre) ==
  [handler |-> "handleSendMessage", contents |-> currentHistory,
   systemInstruction |-> TRUE, responseSchema |-> FALSE,
   currentHistory |-> currentHistory, historyUserParts |-> <<>>, pre |-> pre]

\* the request of handleModificationRequest
ModificationRequest(historyUserParts, modificationPrompt, pre) ==
  [handler |-> "handleModificationRequest",
   contents |-> <<Content("user", ApiCallParts(historyUserParts,
                                   ModificationText(appData, modificationPrompt)))>>,
   systemInstruction |-> FALSE, responseSchema |-> TRUE,
   currentHistory |-> <<>>, historyUserParts |-> historyUserParts, pre |-> pre]

\* the request of handleBuildApp
BuildInstruction ==
  Content("user", <<TextPart(<<"Based on our entire conversation, generate a complete application.">>)>>)

\* a Build request that carries the synthesis instruction alone
BuildRequest_withoutHistory(pre) ==
  [handler |-> "handleBuildApp", contents |-> <<BuildInstruction>>,
   systemInstruction |-> FALSE, responseSchema |-> TRUE,
   currentHistory |-> <<BuildInstruction>>, historyUserParts |-> <<>>,
   pre |-> pre]

BuildRequest(pre) ==
  [handler |-> "handleBuildApp", contents |-> Append(history, BuildInstruction),
   systemInstruction |-> FALSE, responseSchema |-> TRUE,
   currentHistory |-> Append(history, BuildInstruction), historyUserParts |-> <<>>,
   pre |-> pre]

\* handleModificationRequest up to its await; it throws before the call when
\* the artifact has no code
handleModificationRequest(modificationPrompt) ==
  LET displayMessage == UserMessage(attachment, modificationPrompt)
      historyUserParts == UserParts(attachment, modificationPrompt)
      pre == Accepted(Append(displayHistory, displayMessage))
      request == ModificationRequest(historyUserParts, modificationPrompt, pre)
  IN  /\ isLoading' = TRUE
      /\ error' = NoError
      /\ displayHistory' = displayHistory \o <<displayMessage, UpdatingStatus>>
      /\ currentPrompt' = <<>>
      /\ attachment' = NoAttachment
      /\ IF CodeReadable(appData)
           THEN /\ pending' = Append(pending, request)
                /\ issued' = issued + 1
                /\ lastOp' = [Idle EXCEPT !.op = "handleSendMessage",
                                !.handler = "handleModificationRequest",
                                !.result = "issued", !.request = request, !.pre = pre]
           ELSE /\ UNCHANGED <<pending, issued>>
                /\ lastOp' = [Idle EXCEPT !.op = "handleSendMessage",
                                !.handler = "handleModificationRequest",
                                !.result = "threw", !.pre = pre]
      /\ UNCHANGED <<appData, activeTab, history>>

\* handleSendMessage in NoApp, up to its await
SendChat(userText) ==
  LET displayMessage == UserMessage(attachment, userText)
      userParts == UserParts(attachment, userText)
      currentHistory == Append(history, Content("user", userParts))
      pre == Accepted(displayHistory)
      request == ChatRequest(currentHistory, pre)
  IN  /\ isLoading' = TRUE
      /\ error' = NoError
      /\ currentPrompt' = <<>>
      /\ displayHistory' = Append(displayHistory, displayMessage)
      /\ attachment' = NoAttachment
      /\ pending' = Append(pending, request)
      /\ issued' = issued + 1
      /\ lastOp' = [Idle EXCEPT !.op = "handleSendMessage", !.handler = "handleSendMessage",
                      !.result = "issued", !.request = request, !.pre = pre]
      /\ UNCHANGED <<appData, activeTab, history>>

\* an early return that first clears the input box
SendIgnored_clearsPrompt ==
  /\ currentPrompt' = <<>>
  /\ UNCHANGED <<isLoading, error, appData, activeTab, history, displayHistory, attachment,
                 pending, issued>>

\* the early return of handleSendMessage: nothing is touched
SendIgnored ==
  UNCHANGED <<currentPrompt, isLoading, error, appData, activeTab, history, displayHistory,
              attachment, pending, issued>>

\* a send handler that can be reached although the credential is missing
handleSendMessage_withoutCredential ==
  /\ LET userText == Trim(currentPrompt) IN
       IF SendBlocked(userText)
         THEN /\ lastOp' = [Idle EXCEPT !.op = "handleSendMessage", !.result = "noop",
                              !.pre = Snapshot]
              /\ SendIgnored
         ELSE /\ issued < MaxTurns
              /\ IF Truthy(appData)
                   THEN handleModificationRequest(userText)
                   ELSE SendChat(userText)
  /\ UNCHANGED <<apiKeyMissing, readers, reads>>

\* the send button, Enter in the textarea, or a call of the handler while the
\* controls are disabled, which its own busy check has to turn away
handleSendMessage ==
  /\ ~apiKeyMissing
  /\ LET userText == Trim(currentPrompt) IN
       IF SendBlocked(userText)
         THEN /\ lastOp' = [Idle EXCEPT !.op = "handleSendMessage", !.result = "noop",
                              !.pre = Snapshot]
              /\ SendIgnored
         ELSE /\ issued < MaxTurns
              /\ IF Truthy(appData)
                   THEN handleModificationRequest(userText)
                   ELSE SendChat(userText)
  /\ UNCHANGED <<apiKeyMissing, readers, reads>>

\* -------------------------------------------------------------- handleBuildApp
\* displayHistory.map(...): the message Build was clicked on is marked completed
MarkBuildCompleted(dh, messageIndex) ==
  [i \in 1..Len(dh) |-> IF i = messageIndex THEN [dh[i] EXCEPT !.buildCompleted = "true"]
                                            ELSE dh[i]]

\* the Build button of message messageIndex: rendered for an open proposal,
\* disabled while busy
BuildClickable(messageIndex) ==
  /\ ~isLoading
  /\ messageIndex \in 1..Len(displayHistory)
  /\ BuildOffered(displayHistory[messageIndex])

handleBuildApp ==
  /\ ~apiKeyMissing
  /\ issued < MaxTurns
  /\ \E messageIndex \in 1..Len(displayHistory) :
       /\ BuildClickable(messageIndex)
       /\ LET marked == MarkBuildCompleted(displayHistory, messageIndex)
              pre == Accepted(marked)
              request == BuildRequest(pre)
          IN  /\ isLoading' = TRUE
              /\ error' = NoError
              /\ displayHistory' = Append(marked, BuildingStatus)
              /\ pending' = Append(pending, request)
              /\ issued' = issued + 1
              /\ lastOp' = [Idle EXCEPT !.op = "handleBuildApp", !.handler = "handleBuildApp",
                              !.result = "issued", !.request = request, !.pre = pre]
  /\ UNCHANGED <<apiKeyMissing, currentPrompt, appData, activeTab, history, attachment,
                 readers, reads>>

\* ------------------------------------------------- the awaited call returns
\* a catch block that leaves the transcript as it is
Catch_keepsEntry(dh, e) ==
  /\ error' = handleApiError(e)
  /\ displayHistory' = dh

\* a catch block: classify the failure, drop the last display entry
Catch(dh, e) ==
  /\ error' = handleApiError(e)
  /\ displayHistory' = Pop(dh)

\* the busy flag left as it is when a handler ends
Finally_skipped == UNCHANGED isLoading

\* a finally block
Finally == isLoading' = FALSE

Reply(req, result) ==
  [Idle EXCEPT !.op = "reply", !.handler = req.handler, !.result = result,
     !.request = req, !.pre = req.pre]

\* handleSendMessage after its await, appending the reply to the history the
\* component held before the send
ChatResolved_losesUserTurn(req, text) ==
  LET trimmed == Trim(text)
      proposeBuild == EndsWith(trimmed, BUILD_PROPOSAL_TOKEN)
      aiText == IF proposeBuild
                  THEN Trim(ReplaceFirst(trimmed, BUILD_PROPOSAL_TOKEN, <<>>))
                  ELSE trimmed
      aiMessage == [Message("limo", aiText) EXCEPT
                      !.proposeBuild = IF proposeBuild THEN "true" ELSE "false"]
  IN  /\ displayHistory' = Append(displayHistory, aiMessage)
      /\ history' = Append(history, Content("model", <<TextPart(aiText)>>))
      /\ Finally
      /\ lastOp' = [Reply(req, "ok") EXCEPT !.text = text]
      /\ UNCHANGED <<error, appData, activeTab>>

\* handleSendMessage after its await: the call resolved with `text`
ChatResolved(req, text) ==
  LET trimmed == Trim(text)
      proposeBuild == EndsWith(trimmed, BUILD_PROPOSAL_TOKEN)
      aiText == IF proposeBuild
                  THEN Trim(ReplaceFirst(trimmed, BUILD_PROPOSAL_TOKEN, <<>>))
                  ELSE trimmed
      aiMessage == [Message("limo", aiText) EXCEPT
                      !.proposeBuild = IF proposeBuild THEN "true" ELSE "false"]
  IN  /\ displayHistory' = Append(displayHistory, aiMessage)
      /\ history' = Append(req.currentHistory, Content("model", <<TextPart(aiText)>>))
      /\ Finally
      /\ lastOp' = [Reply(req, "ok") EXCEPT !.text = text]
      /\ UNCHANGED <<error, appData, activeTab>>

\* a failed send that keeps the user turn it had prepared
ChatRejected_keepsUserTurn(req, e) ==
  /\ Catch(displayHistory, e)
  /\ Finally
  /\ history' = req.currentHistory
  /\ lastOp' = [Reply(req, "rejected") EXCEPT !.thrown = e]
  /\ UNCHANGED <<appData, activeTab>>

\* handleSendMessage after its await: the call rejected with e
ChatRejected(req, e) ==
  /\ Catch(displayHistory, e)
  /\ Finally
  /\ lastOp' = [Reply(req, "rejected") EXCEPT !.thrown = e]
  /\ UNCHANGED <<appData, activeTab, history>>

\* a modification that writes the response's fields over the old artifact and
\* keeps the fields the response does not have
ModificationResolved_merging(req, text) ==
  LET popped == Pop(displayHistory)
      jsonText == Trim(text)
      parsed == JSONParse(jsonText)
      updatedAppData ==
        IF parsed.ok /\ parsed.value.kind = "object" /\ appData.kind = "object"
          THEN Members(appData, SubSeq(jsonText, 2, Len(jsonText) - 1))
          ELSE parsed.value
  IN  /\ IF ~parsed.ok
           THEN /\ Catch(popped, JSONSyntaxError(jsonText))
                /\ lastOp' = [Reply(req, "threw") EXCEPT
                                !.text = text, !.thrown = JSONSyntaxError(jsonText)]
                /\ UNCHANGED <<appData, history>>
         ELSE IF updatedAppData.kind = "null"
           THEN /\ appData' = updatedAppData
                /\ Catch(popped, NullPropertyError)
                /\ lastOp' = [Reply(req, "threw") EXCEPT
                                !.text = text, !.thrown = NullPropertyError]
                /\ UNCHANGED history
         ELSE /\ appData' = updatedAppData
              /\ displayHistory' = Append(popped, UpdatedMessage(updatedAppData))
              /\ history' = history \o <<Content("user", req.historyUserParts),
                                         UpdatedSummary(updatedAppData)>>
              /\ lastOp' = [Reply(req, "ok") EXCEPT !.text = text]
              /\ UNCHANGED error
      /\ Finally
      /\ UNCHANGED activeTab

\* handleModificationRequest after its await: the call resolved with `text`
ModificationResolved(req, text) ==
  LET popped == Pop(displayHistory)
      jsonText == Trim(text)
      parsed == JSONParse(jsonText)
      updatedAppData == parsed.value
  IN  /\ IF ~parsed.ok
           THEN /\ Catch(popped, JSONSyntaxError(jsonText))
                /\ lastOp' = [Reply(req, "threw") EXCEPT
                                !.text = text, !.thrown = JSONSyntaxError(jsonText)]
                /\ UNCHANGED <<appData, history>>
         ELSE IF updatedAppData.kind = "null"
           THEN /\ appData' = updatedAppData
                /\ Catch(popped, NullPropertyError)
                /\ lastOp' = [Reply(req, "threw") EXCEPT
                                !.text = text, !.thrown = NullPropertyError]
                /\ UNCHANGED history
         ELSE /\ appData' = updatedAppData
              /\ displayHistory' = Append(popped, UpdatedMessage(updatedAppData))
              /\ history' = history \o <<Content("user", req.historyUserParts),
                                         UpdatedSummary(updatedAppData)>>
              /\ lastOp' = [Reply(req, "ok") EXCEPT !.text = text]
              /\ UNCHANGED error
      /\ Finally
      /\ UNCHANGED activeTab

\* a failed modification that leaves the status message in the transcript
ModificationRejected_keepsStatus(req, e) ==
  /\ error' = handleApiError(e)
  /\ UNCHANGED displayHistory
  /\ Finally
  /\ lastOp' = [Reply(req, "rejected") EXCEPT !.thrown = e]
  /\ UNCHANGED <<appData, activeTab, history>>

\* handleModificationRequest after its await: the call rejected with e
ModificationRejected(req, e) ==
  /\ Catch(displayHistory, e)
  /\ Finally
  /\ lastOp' = [Reply(req, "rejected") EXCEPT !.thrown = e]
  /\ UNCHANGED <<appData, activeTab, history>>

\* handleBuildApp after its await: the call resolved with `text`
BuildResolved(req, text) ==
  LET popped == Pop(displayHistory)
      jsonText == Trim(text)
      parsed == JSONParse(jsonText)
      newAppData == parsed.value
  IN  /\ IF ~parsed.ok
           THEN /\ Catch(popped, JSONSyntaxError(jsonText))
                /\ lastOp' = [Reply(req, "threw") EXCEPT
                                !.text = text, !.thrown = JSONSyntaxError(jsonText)]
                /\ UNCHANGED <<appData, history, activeTab>>
         ELSE IF newAppData.kind = "null"
           THEN /\ appData' = newAppData
                /\ Catch(popped, NullPropertyError)
                /\ lastOp' = [Reply(req, "threw") EXCEPT
                                !.text = text, !.thrown = NullPropertyError]
                /\ UNCHANGED <<history, activeTab>>
         ELSE /\ appData' = newAppData
              /\ history' = Append(history, BuiltSummary(newAppData))
              /\ displayHistory' = Append(popped, CreatedMessage(newAppData))
              /\ activeTab' = "preview"
              /\ lastOp' = [Reply(req, "ok") EXCEPT !.text = text]
              /\ UNCHANGED error
      /\ Finally

\* handleBuildApp after its await: the call rejected with e
BuildRejected(req, e) ==
  /\ Catch(displayHistory, e)
  /\ Finally
  /\ lastOp' = [Reply(req, "rejected") EXCEPT !.thrown = e]
  /\ UNCHANGED <<appData, activeTab, history>>

\* the i-th call in flight is no longer in flight
Settle(i) ==
  pending' = SubSeq(pending, 1, i - 1) \o SubSeq(pending, i + 1, Len(pending))

\* generateContent resolves: the awaiting handler runs to its end
generateContentResolves ==
  /\ \E i \in 1..Len(pending) :
       LET req == pending[i] IN
         /\ Settle(i)
         /\ \E text \in (IF req.responseSchema THEN JsonReplies ELSE ChatReplies) :
              CASE req.handler = "handleSendMessage" -> ChatResolved(req, text)
                [] req.handler = "handleModificationRequest" -> ModificationResolved(req, text)
                [] req.handler = "handleBuildApp" -> BuildResolved(req, text)
  /\ UNCHANGED <<apiKeyMissing, currentPrompt, attachment, readers, issued, reads>>

\* generateContent rejects: the awaiting handler runs its catch and finally
generateContentRejects ==
  /\ \E i \in 1..Len(pending) :
       LET req == pending[i] IN
         /\ Settle(i)
         /\ \E e \in ApiErrors :
              CASE req.handler = "handleSendMessage" -> ChatRejected(req, e)
                [] req.handler = "handleModificationRequest" -> ModificationRejected(req, e)
                [] req.handler = "handleBuildApp" -> BuildRejected(req, e)
  /\ UNCHANGED <<apiKeyMissing, currentPrompt, attachment, readers, issued, reads>>

\* ------------------------------------------------------------ specification
\* the conversation engine
Next ==
  \/ handlePromptInput
  \/ selectTab
  \/ handleSendMessage
  \/ handleBuildApp
  \/ generateContentResolves
  \/ generateContentRejects

Spec == Init /\ [][Next]_vars

\* sending, together with the attachment handler (Build, which takes no
\* attachment, and the output panel's tabs left aside)
NextWithFiles ==
  \/ handlePromptInput
  \/ handleSendMessage
  \/ generateContentResolves
  \/ generateContentRejects
  \/ handleFileSelected
  \/ readerOnload
  \/ removeAttachment

\* the artifact of the session InitWithFiles can start from
BuiltApp == JSONParse(<<"{", "appName", "B", "theme", "T2", "code", "K2", "}">>).value

\* a session right after construction, or one in which a first round of
\* conversation and a Build have produced an artifact and the user may have
\* attached an image since; either has MaxFileTurns of its MaxTurns calls left
InitWithFiles ==
  /\ currentPrompt = <<>>
  /\ isLoading = FALSE
  /\ error = NoError
  /\ activeTab = "preview"
  /\ readers = <<>>
  /\ pending = <<>>
  /\ issued = MaxTurns - MaxFileTurns
  /\ reads = 0
  /\ lastOp = Idle
  /\ \/ /\ apiKeyMissing \in BOOLEAN
        /\ attachment = NoAttachment
        /\ appData = Null
        /\ history = <<>>
        /\ displayHistory = <<Greeting>>
     \/ /\ apiKeyMissing = FALSE
        /\ attachment \in {NoAttachment, LoadedAttachment("image/png")}
        /\ appData = BuiltApp
        /\ history = <<Content("user", <<TextPart(<<"a">>)>>),
                       Content("model", <<TextPart(<<"plan">>)>>),
                       BuiltSummary(BuiltApp)>>
        /\ displayHistory =
             <<Greeting,
               UserMessage(NoAttachment, <<"a">>),
               [Message("limo", <<"plan">>) EXCEPT !.proposeBuild = "true",
                                                    !.buildCompleted = "true"],
               CreatedMessage(BuiltApp)>>

SpecWithFiles == InitWithFiles /\ [][NextWithFiles]_vars

\* ------------------------------------------------- handleApiError on its own
\* the pieces a failure's message is made of
ErrorSymbols ==
  {"429", "RESOURCE_EXHAUSTED", "Quota", "API key not valid", "Deadline Exceeded",
   "Failed to fetch"}

\* messages of up to n symbols
RECURSIVE Messages(_)
Messages(n) ==
  IF n = 0 THEN {<<>>}
  ELSE Messages(n - 1)
         \cup {Append(m, c) : m \in {x \in Messages(n - 1) : Len(x) = n - 1}, c \in ErrorSymbols}

\* what a catch block can receive: an Error, or a value that is no Error
CaughtValues ==
  {[isError |-> b, message |-> m] : b \in BOOLEAN, m \in Messages(MaxMessageLen)}

\* a catch block has received a value
ApiErrorInit ==
  /\ apiKeyMissing = FALSE
  /\ currentPrompt = <<>>
  /\ isLoading = TRUE
  /\ error = NoError
  /\ appData = Null
  /\ activeTab = "preview"
  /\ history = <<>>
  /\ displayHistory = <<Greeting>>
  /\ attachment = NoAttachment
  /\ readers = <<>>
  /\ pending = <<>>
  /\ issued = 0
  /\ reads = 0
  /\ \E e \in CaughtValues : lastOp = [Idle EXCEPT !.op = "catch", !.thrown = e]

\* this.error = this.handleApiError(e)
ApiErrorReturns ==
  /\ lastOp.op = "catch"
  /\ error' = handleApiError(lastOp.thrown)
  /\ lastOp' = [lastOp EXCEPT !.op = "handleApiError"]
  /\ UNCHANGED <<apiKeyMissing, currentPrompt, isLoading, appData, activeTab, history,
                 displayHistory, attachment, readers, pending, issued, reads>>

SpecApiError == ApiErrorInit /\ [][ApiErrorReturns]_vars

\* ------------------------------------------------------- getIframeContent
\* String.prototype.replace(/ /g, '+')
ReplaceSpaces(s) == [i \in 1..Len(s) |-> IF s[i] = " " THEN "+" ELSE s[i]]

\* code.javascript.includes('import '): the text "import" directly followed by
\* a space; the piece "import " is the two together
IncludesImport(js) ==
  \E i \in 1..Len(js) :
     \/ js[i] = "import "
     \/ js[i] = "import" /\ i < Len(js) /\ js[i + 1] = " "

BaselineStylesheet == <<"body {", "canvas {", "h1, h2, h3 {", "button, input {">>

\* evaluating the function throws a TypeError: a property of undefined is read
\* (theme.headerFont, code.javascript) or a method of undefined is called
\* (headerFont.replace, bodyFont.replace, javascript.includes)
IframeContentThrows(v) ==
  \/ ~v.theme.defined
  \/ v.theme.headerFont = Undefined
  \/ v.theme.bodyFont = Undefined
  \/ ~v.code.defined
  \/ v.code.javascript = Undefined

\* the document, for a value on which nothing throws
IframeDocument(v) ==
  LET theme == v.theme
      code == v.code
      fontUrl == <<"https://fonts.googleapis.com/css2?family=">>
                   \o ReplaceSpaces(theme.headerFont) \o <<":wght@400;700&family=">>
                   \o ReplaceSpaces(theme.bodyFont) \o <<":wght@400;700&display=swap">>
      isModule == IncludesImport(code.javascript)
      scriptTag == IF isModule
                     THEN <<"<script type=\"module\">">> \o code.javascript \o <<"</script>">>
                     ELSE <<"<script>">> \o code.javascript \o <<"</script>">>
  IN  <<"<!DOCTYPE html>", "<html>", "<head>", "<link rel=\"stylesheet\" href=\"">>
        \o fontUrl \o <<"\">", "<style>", ":root {">>
        \o <<"--website-bg-color: ">> \o Interp(theme.backgroundColor) \o <<";">>
        \o <<"--website-primary-color: ">> \o Interp(theme.primaryColor) \o <<";">>
        \o <<"--website-text-color: ">> \o Interp(theme.textColor) \o <<";">>
        \o <<"--website-header-font: '">> \o theme.headerFont \o <<"', sans-serif;">>
        \o <<"--website-body-font: '">> \o theme.bodyFont \o <<"', sans-serif;">>
        \o <<"}">> \o BaselineStylesheet \o Interp(code.css)
        \o <<"</style>", "</head>", "<body>">> \o Interp(code.html) \o scriptTag
        \o <<"</body>", "</html>">>

\* getIframeContent: '' without an artifact, else the document, or a TypeError
getIframeContent(v) ==
  IF ~Truthy(v) THEN [threw |-> FALSE, text |-> <<>>]
  ELSE IF IframeContentThrows(v) THEN [threw |-> TRUE, text |-> <<>>]
  ELSE [threw |-> FALSE, text |-> IframeDocument(v)]

\* the pieces of text a JavaScript source is made of
ScriptSymbols == {"import ", "import", " ", "{a}from'm';", "//", "f();"}

\* sources of up to n pieces
RECURSIVE Scripts(_)
Scripts(n) ==
  IF n = 0 THEN {<<>>}
  ELSE Scripts(n - 1)
         \cup {Append(m, c) : m \in {x \in Scripts(n - 1) : Len(x) = n - 1},
                              c \in ScriptSymbols}

\* the values appData can hold when the preview is rendered: what JSON.parse
\* can return for a response, with every script of Scripts(MaxScriptLen)
PreviewInputs ==
  { Null, JSNumber(0), EmptyObject,
    Members(EmptyObject, <<"appName", "A", "code", "K1">>),
    Members(EmptyObject, <<"appName", "A", "theme", "Tpartial", "code", "K1">>),
    Members(EmptyObject, <<"appName", "A", "theme", "T1", "code", "Kpartial">>),
    Members(EmptyObject, <<"appName", "A", "theme", "T1", "code", "K1">>) }
    \cup { [Members(EmptyObject, <<"appName", "B", "theme", t, "code", "K2">>)
              EXCEPT !.code.javascript = js] :
             t \in {"T1", "T2"}, js \in Scripts(MaxScriptLen) }

\* a component whose appData holds one of these values
PreviewInit ==
  /\ apiKeyMissing = FALSE
  /\ currentPrompt = <<>>
  /\ isLoading = FALSE
  /\ error = NoError
  /\ appData \in PreviewInputs
  /\ activeTab = "preview"
  /\ history = <<>>
  /\ displayHistory = <<Greeting>>
  /\ attachment = NoAttachment
  /\ readers = <<>>
  /\ pending = <<>>
  /\ issued = 0
  /\ reads = 0
  /\ lastOp = Idle

\* srcdoc=${this.getIframeContent()}: the function is evaluated; it assigns
\* no field
renderPreview ==
  /\ lastOp.op = "idle"
  /\ LET content == getIframeContent(appData) IN
       lastOp' = [Idle EXCEPT !.op = "getIframeContent",
                    !.result = IF content.threw THEN "threw" ELSE "returned",
                    !.text = content.text, !.pre = Accepted(displayHistory)]
  /\ UNCHANGED <<apiKeyMissing, currentPrompt, isLoading, error, appData, activeTab,
                 history, displayHistory, attachment, readers, pending, issued, reads>>

SpecPreview == PreviewInit /\ [][renderPreview]_vars

\* ------------------------------------ the single-shot generator (index.tsx)
\* Its component has the fields prompt (currentPrompt here), isLoading, error,
\* appData and activeTab; the other variables never change.
MsgGenerateFailed ==
  "Failed to generate the app. The model may have returned an unexpected format. Please try a different prompt."

\* what the user can type
GeneratorPrompts == { <<>>, <<" ">>, <<"a">> }

\* field initialisers of the class
GeneratorInit ==
  /\ apiKeyMissing = FALSE
  /\ currentPrompt = <<>>
  /\ isLoading = FALSE
  /\ error = NoError
  /\ appData = Null
  /\ activeTab = "preview"
  /\ history = <<>>
  /\ displayHistory = <<>>
  /\ attachment = NoAttachment
  /\ readers = <<>>
  /\ pending = <<>>
  /\ issued = 0
  /\ reads = 0
  /\ lastOp = Idle

\* typing in the textarea, which is disabled while busy
generatorPromptInput ==
  /\ ~isLoading
  /\ \E value \in GeneratorPrompts :
       /\ value # currentPrompt
       /\ currentPrompt' = value
  /\ lastOp' = Idle
  /\ UNCHANGED <<apiKeyMissing, isLoading, error, appData, activeTab, history,
                 displayHistory, attachment, readers, pending, issued, reads>>

\* the tab buttons, rendered when idle, without error and with an artifact
generatorSelectTab ==
  /\ ~isLoading
  /\ error = NoError
  /\ Truthy(appData)
  /\ \E tab \in {"preview", "code"} :
       /\ tab # activeTab
       /\ activeTab' = tab
  /\ lastOp' = Idle
  /\ UNCHANGED <<apiKeyMissing, currentPrompt, isLoading, error, appData, history,
                 displayHistory, attachment, readers, pending, issued, reads>>

\* the request of handleGenerateClick
GenerateRequest(pre) ==
  [handler |-> "handleGenerateClick",
   contents |-> <<Content("user", <<TextPart(<<"Generate a complete, functional, single-page application. Idea: ">>
                                              \o currentPrompt)>>)>>,
   systemInstruction |-> FALSE, responseSchema |-> TRUE,
   currentHistory |-> <<>>, historyUserParts |-> <<>>, pre |-> pre]

\* the Generate button, or a call of the handler while the button is disabled,
\* up to the await
handleGenerateClick ==
  /\ IF currentPrompt = <<>> \/ isLoading
       THEN /\ lastOp' = [Idle EXCEPT !.op = "handleGenerateClick", !.result = "noop",
                            !.pre = Snapshot]
            /\ UNCHANGED <<isLoading, error, appData, pending, issued>>
       ELSE /\ issued < MaxTurns
            /\ LET pre == Accepted(displayHistory)
                   request == GenerateRequest(pre)
               IN  /\ isLoading' = TRUE
                   /\ error' = NoError
                   /\ appData' = Null
                   /\ pending' = Append(pending, request)
                   /\ issued' = issued + 1
                   /\ lastOp' = [Idle EXCEPT !.op = "handleGenerateClick",
                                   !.handler = "handleGenerateClick",
                                   !.result = "issued", !.request = request, !.pre = pre]
  /\ UNCHANGED <<apiKeyMissing, currentPrompt, activeTab, history, displayHistory,
                 attachment, readers, reads>>

\* handleGenerateClick after its await: the call resolved with `text`
GenerateResolved(req, text) ==
  LET jsonText == Trim(text)
      parsed == JSONParse(jsonText)
  IN  /\ IF ~parsed.ok
           THEN /\ error' = MsgGenerateFailed
                /\ lastOp' = [Reply(req, "threw") EXCEPT
                                !.text = text, !.thrown = JSONSyntaxError(jsonText)]
                /\ UNCHANGED <<appData, activeTab>>
           ELSE /\ appData' = parsed.value
                /\ activeTab' = "preview"
                /\ lastOp' = [Reply(req, "ok") EXCEPT !.text = text]
                /\ UNCHANGED error
      /\ Finally

\* handleGenerateClick after its await: the call rejected with e
GenerateRejected(req, e) ==
  /\ error' = MsgGenerateFailed
  /\ Finally
  /\ lastOp' = [Reply(req, "rejected") EXCEPT !.thrown = e]
  /\ UNCHANGED <<appData, activeTab>>

\* generateContent resolves: the handler runs to its end
generateResolves ==
  /\ pending # <<>>
  /\ Settle(1)
  /\ \E text \in JsonReplies : GenerateResolved(pending[1], text)
  /\ UNCHANGED <<apiKeyMissing, currentPrompt, history, displayHistory, attachment,
                 readers, issued, reads>>

\* generateContent rejects: the handler runs its catch and finally
generateRejects ==
  /\ pending # <<>>
  /\ Settle(1)
  /\ \E e \in ApiErrors : GenerateRejected(pending[1], e)
  /\ UNCHANGED <<apiKeyMissing, currentPrompt, history, displayHistory, attachment,
                 readers, issued, reads>>

GeneratorNext ==
  \/ generatorPromptInput
  \/ generatorSelectTab
  \/ handleGenerateClick
  \/ generateResolves
  \/ generateRejects

SpecGenerator == GeneratorInit /\ [][GeneratorNext]_vars

\* ------------------------------------------------------------------ claims
FailureMessages == {MsgHighDemand, MsgConfiguration, MsgTimeout, MsgUnexpected}

\* the last step was the end of a handler whose call had been issued
Replied == lastOp.op = "reply"

\* that handler ended in its catch block
Failed == Replied /\ lastOp.result \in {"rejected", "threw"}

\* the call resolved with a text that is no JSON
ResolvedMalformed ==
  /\ Replied
  /\ lastOp.request.responseSchema
  /\ lastOp.result \in {"ok", "threw"}
  /\ ~JSONValid(Trim(lastOp.text))

\* a is a prefix of b
IsPrefix(a, b) == Len(a) <= Len(b) /\ SubSeq(b, 1, Len(a)) = a

\* C1: in every reachable state at most one generation request is in flight.
C1_AtMostOneInFlight == Len(pending) <= 1

\* C1 witness: a send with text to send was turned away while a Build request
\* was in flight
C1_Witness ==
  /\ Len(pending) = 1
  /\ pending[1].handler = "handleBuildApp"
  /\ lastOp.op = "handleSendMessage"
  /\ lastOp.result = "noop"
  /\ Trim(currentPrompt) # <<>>

\* C2: a send invoked while isLoading is true leaves history, displayHistory,
\* appData, error, currentPrompt and attachment as they were and issues no call.
C2_SendWhileBusyIsNoOp ==
  (lastOp.op = "handleSendMessage" /\ lastOp.pre.isLoading) =>
     /\ lastOp.result = "noop"
     /\ history = lastOp.pre.history
     /\ displayHistory = lastOp.pre.displayHistory
     /\ appData = lastOp.pre.appData
     /\ error = lastOp.pre.error
     /\ currentPrompt = lastOp.pre.currentPrompt
     /\ attachment = lastOp.pre.attachment
     /\ issued = lastOp.pre.issued
     /\ isLoading

\* C2 witness: a send with text in the box was invoked while busy, with an
\* artifact present
C2_Witness ==
  /\ lastOp.op = "handleSendMessage"
  /\ lastOp.pre.isLoading
  /\ Trim(lastOp.pre.currentPrompt) # <<>>
  /\ Truthy(appData)

\* C3: a build or modification whose response text is not JSON ends as a
\* failure with error set, and appData is what it was before the action.
C3_MalformedLeavesAppData ==
  ResolvedMalformed =>
     /\ lastOp.result = "threw"
     /\ error # NoError
     /\ appData = lastOp.pre.appData

\* C3 witness: a modification of an existing artifact got a malformed response
C3_Witness ==
  /\ ResolvedMalformed
  /\ lastOp.handler = "handleModificationRequest"
  /\ FullyPopulated(lastOp.pre.appData)

\* C4: in every reachable state appData is absent or has appName, the five
\* theme fields and the three code fields; a partial artifact is never stored.
C4_AbsentOrFullyPopulated == appData = Null \/ FullyPopulated(appData)

\* C5: once appData has been set to a non-null value it is non-null in every
\* later state.
C5_HasAppIsOneWay == [][appData # Null => appData' # Null]_vars

\* the last step was the end of a Build or modification handler in its catch
FailedBuildOrModification ==
  Failed /\ lastOp.handler \in {"handleBuildApp", "handleModificationRequest"}

\* C6: on any failure of a Build or modification exactly the status message is
\* rolled back: the transcript is what it was just before that message was
\* appended.
C6_OnlyStatusRolledBack ==
  FailedBuildOrModification => displayHistory = lastOp.pre.beforeStatus

\* the last step was the end of a clarifying send, started without appData, in
\* its catch
FailedChat ==
  Failed /\ lastOp.handler = "handleSendMessage" /\ lastOp.pre.appData = Null

\* C7: after a failed clarifying send in NoApp displayHistory and history are
\* what they were before the send, appData is null, error is the classified
\* message and isLoading is false.
C7_FailedChatRollsBack ==
  FailedChat =>
     /\ displayHistory = lastOp.pre.displayHistory
     /\ history = lastOp.pre.history
     /\ appData = Null
     /\ error = handleApiError(lastOp.thrown)
     /\ error \in FailureMessages
     /\ ~isLoading

\* C7 witness: the second send of a conversation failed with a rate limit
C7_Witness ==
  /\ FailedChat
  /\ Len(lastOp.pre.history) = 2
  /\ Len(lastOp.pre.displayHistory) = 3
  /\ error = MsgHighDemand

\* C8: isLoading is true from the moment a call is issued for as long as it is
\* pending, and false once the handler has run on its result, also when the
\* response failed to parse.
C8_BusyExactlyWhilePending ==
  /\ pending # <<>> => isLoading
  /\ lastOp.result = "issued" => isLoading /\ pending # <<>>
  /\ Replied => ~isLoading

\* C8 witness: a modification's response failed to parse and the flag is clear
C8_Witness ==
  /\ Replied
  /\ lastOp.handler = "handleModificationRequest"
  /\ lastOp.result = "threw"
  /\ ~isLoading
  /\ pending = <<>>

\* C9: in every step history is a prefix of the new history, and after a
\* failed send, Build or modification it is what it was before that action.
C9_HistoryAppendOnly ==
  [][/\ IsPrefix(history, history')
     /\ (lastOp'.op = "reply" /\ lastOp'.result \in {"rejected", "threw"})
          => history' = lastOp'.pre.history]_vars

\* C9 witness: a modification failed after the conversation and the build had
\* put turns in history
C9_Witness ==
  /\ Failed
  /\ lastOp.handler = "handleModificationRequest"
  /\ Len(history) >= 3
  /\ history = lastOp.pre.history

\* sub occurs in s as a contiguous piece
ContainsSeq(s, sub) ==
  \E i \in 0..(Len(s) - Len(sub)) : SubSeq(s, i + 1, i + Len(sub)) = sub

\* the request is the schema-constrained one and its text carries the code of
\* artifact v and the user's text
IsModificationOf(request, v, userText) ==
  /\ request.responseSchema
  /\ ~request.systemInstruction
  /\ Len(request.contents) = 1
  /\ LET parts == request.contents[1].parts
         textContent == parts[Len(parts)].text
     IN  /\ v.code.defined
         /\ ContainsSeq(textContent, v.code.html)
         /\ ContainsSeq(textContent, v.code.css)
         /\ ContainsSeq(textContent, v.code.javascript)
         /\ ContainsSeq(textContent, userText)

\* C10: with appData present every accepted send issues the schema-constrained
\* modification request carrying the html, css and javascript of that appData
\* and the user's request, never the clarifying chat request.
C10_HasAppSendIsModification ==
  (lastOp.op = "handleSendMessage" /\ lastOp.result # "noop" /\ lastOp.pre.appData # Null)
    => /\ lastOp.result = "issued"
       /\ lastOp.handler = "handleModificationRequest"
       /\ IsModificationOf(lastOp.request, lastOp.pre.appData,
                           lastOp.pre.beforeStatus[Len(lastOp.pre.beforeStatus)].text)

\* the last step was the end of a clarifying send whose call resolved
RepliedChat ==
  Replied /\ lastOp.handler = "handleSendMessage" /\ lastOp.result = "ok"

\* C11: for every reply to a clarifying send the new display message has
\* proposeBuild true exactly when the trimmed reply ends in the token, and then
\* neither the displayed text nor the text saved to history contains the token,
\* also when the token occurs earlier in the reply as well.
C11_ProposalTokenStripped ==
  RepliedChat =>
    LET aiMessage == displayHistory[Len(displayHistory)]
        saved == history[Len(history)].parts[1].text
        endsInToken == EndsWith(Trim(lastOp.text), BUILD_PROPOSAL_TOKEN)
    IN  /\ aiMessage.proposeBuild = (IF endsInToken THEN "true" ELSE "false")
        /\ endsInToken => /\ ~Includes(aiMessage.text, BUILD_PROPOSAL_TOKEN)
                          /\ ~Includes(saved, BUILD_PROPOSAL_TOKEN)

\* the token occurs exactly once in the text
OccursOnce(s, tok) == Cardinality({i \in 1..Len(s) : s[i] = tok}) = 1

\* C11, for replies that carry the token once: the flag and the stripping are
\* as stated
C11_SingleTokenStripped ==
  (RepliedChat /\ OccursOnce(lastOp.text, BUILD_PROPOSAL_TOKEN))
     => C11_ProposalTokenStripped

\* the last step was the end of a Build handler in its catch block
FailedBuild == Failed /\ lastOp.handler = "handleBuildApp"

\* C12: after a failed Build the proposal message Build was invoked on is still
\* in the transcript with proposeBuild true and buildCompleted not set, so the
\* Build action is available on it again.
C12_FailedBuildCanBeRetried ==
  FailedBuild =>
    \A i \in 1..Len(lastOp.pre.displayHistory) :
       lastOp.pre.beforeStatus[i] # lastOp.pre.displayHistory[i]
         => /\ i <= Len(displayHistory)
            /\ displayHistory[i].text = lastOp.pre.displayHistory[i].text
            /\ BuildOffered(displayHistory[i])

\* after a Build that the provider rejected the proposal message is still in
\* the transcript, with its text and its proposeBuild flag
C12_ProposalKeptOnRejection ==
  (FailedBuild /\ lastOp.result = "rejected") =>
    \A i \in 1..Len(lastOp.pre.displayHistory) :
       lastOp.pre.beforeStatus[i] # lastOp.pre.displayHistory[i]
         => /\ i <= Len(displayHistory)
            /\ displayHistory[i].text = lastOp.pre.displayHistory[i].text
            /\ displayHistory[i].proposeBuild = "true"
            /\ displayHistory[i].buildCompleted = "true"

\* the last step was the end of a Build handler that did not throw
BuildSucceeded == Replied /\ lastOp.handler = "handleBuildApp" /\ lastOp.result = "ok"

\* the turn is a model turn of one text part that carries neither the synthesis
\* instruction nor a lexeme of the structured response
IsSummaryTurn(turn, text) ==
  /\ turn.role = "model"
  /\ Len(turn.parts) = 1
  /\ ~turn.parts[1].inlineData
  /\ turn # BuildInstruction
  /\ \A i \in 1..Len(turn.parts[1].text) :
        turn.parts[1].text[i] \notin (ThemeLexemes \cup CodeLexemes \cup {"{", "}"})
  /\ \A i \in 1..Len(text) :
        CodeLiteral(text[i]).defined
          => ~ContainsSeq(turn.parts[1].text, CodeLiteral(text[i]).html)

\* C13: a Build request is the whole history followed by the synthesis
\* instruction, with a response schema; after a successful Build appData is the
\* parsed response and not null, history is the earlier history plus exactly
\* one model summary turn, the status message has given way to one completion
\* message, and activeTab is 'preview'.
C13_BuildSuccess ==
  /\ (lastOp.op = "handleBuildApp" /\ lastOp.result = "issued") =>
        /\ pending = <<lastOp.request>>
        /\ lastOp.request.contents = Append(history, BuildInstruction)
        /\ lastOp.request.responseSchema
  /\ BuildSucceeded =>
        /\ lastOp.request.contents = Append(lastOp.pre.history, BuildInstruction)
        /\ lastOp.request.responseSchema
        /\ appData = JSONParse(Trim(lastOp.text)).value
        /\ appData # Null
        /\ Len(history) = Len(lastOp.pre.history) + 1
        /\ IsPrefix(lastOp.pre.history, history)
        /\ IsSummaryTurn(history[Len(history)], lastOp.text)
        /\ Len(displayHistory) = Len(lastOp.pre.beforeStatus) + 1
        /\ IsPrefix(lastOp.pre.beforeStatus, displayHistory)
        /\ displayHistory[Len(displayHistory)].author = "limo"
        /\ displayHistory[Len(displayHistory)] # BuildingStatus
        /\ activeTab = "preview"

\* C13 witness: a second Build succeeded after two rounds of conversation and
\* a first artifact
C13_Witness ==
  /\ BuildSucceeded
  /\ FullyPopulated(appData)
  /\ lastOp.pre.appData # Null
  /\ Len(lastOp.pre.history) >= 4

\* the last step was the end of a modification handler that did not throw
ModificationSucceeded ==
  Replied /\ lastOp.handler = "handleModificationRequest" /\ lastOp.result = "ok"

\* C14: every change of appData is to exactly the value a response parsed to,
\* never to a mixture of old and new fields; after a successful modification
\* appData is the parsed response, history is the earlier history plus the user
\* turn and one model summary turn, and appData is still not null.
C14_ModificationReplacesWholesale ==
  [][/\ appData' # appData =>
          /\ lastOp'.op = "reply"
          /\ appData' = JSONParse(Trim(lastOp'.text)).value
     /\ ModificationSucceeded' =>
          /\ appData' = JSONParse(Trim(lastOp'.text)).value
          /\ appData' # Null
          /\ lastOp'.pre.appData = appData
          /\ Len(history') = Len(history) + 2
          /\ IsPrefix(history, history')
          /\ history'[Len(history) + 1] =
               Content("user", lastOp'.request.historyUserParts)
          /\ history'[Len(history) + 1].parts # <<>>
          /\ IsSummaryTurn(history'[Len(history) + 2], lastOp'.text)]_vars

\* C14 witness: a complete artifact was replaced by a response that has no
\* theme, and the new artifact has none
C14_Witness ==
  /\ ModificationSucceeded
  /\ FullyPopulated(lastOp.pre.appData)
  /\ ~appData.theme.defined
  /\ appData.code.defined

\* the last step was the end of a clarifying send, started without appData,
\* whose call resolved
RepliedChatInNoApp == RepliedChat /\ lastOp.pre.appData = Null

\* C15: a successful send in NoApp appends one user turn and one model turn to
\* history and one user entry and one model entry to displayHistory, leaves
\* appData null, and the new model entry offers Build exactly when the trimmed
\* reply ended in the build-proposal marker.
C15_SendInNoApp ==
  RepliedChatInNoApp =>
    LET h == Len(lastOp.pre.history)
        d == Len(lastOp.pre.displayHistory)
    IN  /\ Len(history) = h + 2
        /\ IsPrefix(lastOp.pre.history, history)
        /\ history[h + 1].role = "user"
        /\ history[h + 1].parts # <<>>
        /\ history[h + 1].parts[Len(history[h + 1].parts)].text = displayHistory[d + 1].text
        /\ history[h + 2].role = "model"
        /\ Len(displayHistory) = d + 2
        /\ IsPrefix(lastOp.pre.displayHistory, displayHistory)
        /\ displayHistory[d + 1].author = "user"
        /\ displayHistory[d + 2].author = "limo"
        /\ appData = Null
        /\ BuildOffered(displayHistory[d + 2])
             <=> EndsWith(Trim(lastOp.text), BUILD_PROPOSAL_TOKEN)

\* C15 witness: the second send of a conversation got a reply with the marker
\* and the entry offers Build, still without an artifact
C15_Witness ==
  /\ RepliedChatInNoApp
  /\ Len(lastOp.pre.history) = 2
  /\ BuildOffered(displayHistory[Len(displayHistory)])
  /\ appData = Null

\* the message has a symbol of the set
HasIndicator(m, indicators) == \E i \in 1..Len(m) : m[i] \in indicators

RateLimitIndicators == {"429", "RESOURCE_EXHAUSTED", "resource_exhausted", "Quota", "quota"}
CredentialIndicators == {"API key not valid", "api key not valid"}
TimeoutIndicators == {"Deadline Exceeded", "deadline exceeded"}

\* C16: handleApiError returns one of the four fixed strings: the high-demand
\* one for an Error whose message has a rate-limit or quota indicator in any
\* letter case, else the configuration one for the invalid-credential
\* indicator, else the timeout one for the timeout indicator, else the generic
\* one, which is also the result for a value that is no Error; the result is
\* never a piece of the message.
C16_ErrorClassification ==
  lastOp.op = "handleApiError" =>
    LET e == lastOp.thrown IN
      /\ error \in FailureMessages
      /\ error =
           IF e.isError /\ HasIndicator(e.message, RateLimitIndicators) THEN MsgHighDemand
           ELSE IF e.isError /\ HasIndicator(e.message, CredentialIndicators)
             THEN MsgConfiguration
           ELSE IF e.isError /\ HasIndicator(e.message, TimeoutIndicators) THEN MsgTimeout
           ELSE MsgUnexpected
      /\ \A i \in 1..Len(e.message) : e.message[i] # error

\* C16 witness: an Error whose message has the timeout and the rate-limit
\* indicator was classified as high demand
C16_Witness ==
  /\ lastOp.op = "handleApiError"
  /\ lastOp.thrown = ErrorValue(<<"Deadline Exceeded", "429">>)
  /\ error = MsgHighDemand

\* C17: when a modification request in HasApp gets a response that is not JSON,
\* the error shown is the generic unexpected-error message, whatever the text
\* of the response.
C17_MalformedModificationIsGeneric ==
  (ResolvedMalformed /\ lastOp.handler = "handleModificationRequest"
     /\ lastOp.pre.appData # Null)
    => error = MsgUnexpected

\* a malformed response whose text has none of the classifier's indicators
\* gives the generic message
C17_GenericWithoutIndicator ==
  (ResolvedMalformed /\ lastOp.handler = "handleModificationRequest"
     /\ ~HasIndicator(Trim(lastOp.text),
                      RateLimitIndicators \cup CredentialIndicators \cup TimeoutIndicators))
    => error = MsgUnexpected

\* the MIME types of FileTypes by their prefix
ImageTypes == {"image/png"}
AudioTypes == {"audio/mpeg"}

\* C18: selecting a file whose type starts with neither 'image/' nor 'audio/'
\* sets error to the unsupported-file-type message, starts no read, issues no
\* call and leaves attachment, history, displayHistory, appData and isLoading
\* as they were; a file of an accepted type is read and, once loaded, is the
\* pending attachment, with type 'image' or 'audio' after its prefix.
C18_FileSelection ==
  /\ lastOp.op = "handleFileSelected" =>
       IF lastOp.text[1] \notin ImageTypes \cup AudioTypes
         THEN /\ lastOp.result = "rejected"
              /\ error = MsgUnsupportedFile
              /\ attachment = lastOp.pre.attachment
              /\ history = lastOp.pre.history
              /\ displayHistory = lastOp.pre.displayHistory
              /\ appData = lastOp.pre.appData
              /\ isLoading = lastOp.pre.isLoading
              /\ issued = lastOp.pre.issued
              /\ pending = <<>>
              /\ \A i \in 1..Len(readers) : readers[i] \in ImageTypes \cup AudioTypes
         ELSE /\ lastOp.result = "reading"
              /\ error = NoError
              /\ readers # <<>>
              /\ readers[Len(readers)] = lastOp.text[1]
  /\ lastOp.op = "onload" =>
       /\ lastOp.text[1] \in ImageTypes \cup AudioTypes
       /\ attachment.present
       /\ attachment.fileType = lastOp.text[1]
       /\ attachment.type = (IF lastOp.text[1] \in ImageTypes THEN "image" ELSE "audio")

\* C18 witness: a text file was turned away while an image was the pending
\* attachment of a session with an artifact
C18_Witness ==
  /\ lastOp.op = "handleFileSelected"
  /\ lastOp.text = <<"text/plain">>
  /\ error = MsgUnsupportedFile
  /\ attachment.present
  /\ attachment.type = "image"
  /\ appData # Null

\* the last step was an accepted send: handleSendMessage went past its early
\* return
AcceptedSend == lastOp.op = "handleSendMessage" /\ lastOp.result # "noop"

\* the user's display entry of the accepted send that was the last step
SentEntry ==
  IF lastOp.handler = "handleSendMessage"
    THEN displayHistory[Len(displayHistory)]
    ELSE displayHistory[Len(displayHistory) - 1]

\* C19: the pending attachment is nothing or one loaded file; right after an
\* accepted send, clarifying or modification, attachment is null, the display
\* entry of that send carries an attachment exactly when one was pending, and
\* it is that one; the request issued carries it as inline data.
C19_AttachmentFolded ==
  /\ attachment \in {NoAttachment} \cup {LoadedAttachment(t) : t \in ImageTypes \cup AudioTypes}
  /\ AcceptedSend =>
       LET was == lastOp.pre.attachment IN
         /\ attachment = NoAttachment
         /\ SentEntry.author = "user"
         /\ SentEntry.attachment.defined <=> was.present
         /\ was.present => /\ SentEntry.attachment.url = was.dataUrl
                           /\ SentEntry.attachment.type = was.type
         /\ lastOp.result = "issued" =>
              LET contents == lastOp.request.contents
                  parts == contents[Len(contents)].parts
              IN  /\ parts # <<>>
                  /\ parts[1].inlineData <=> was.present
                  /\ was.present => /\ parts[1].mimeType = was.fileType
                                    /\ <<"data:", parts[1].mimeType, ";base64", ",">>
                                         \o parts[1].data = was.dataUrl

\* C19 witness: a modification was sent with an audio file attached and no text
C19_Witness ==
  /\ AcceptedSend
  /\ lastOp.handler = "handleModificationRequest"
  /\ lastOp.result = "issued"
  /\ lastOp.pre.attachment.present
  /\ lastOp.pre.attachment.type = "audio"
  /\ SentEntry.text = <<>>
  /\ attachment = NoAttachment

\* C20: when the credential was absent at construction no action of the user
\* interface is available (no typing, send, Build, tab, file selection or
\* attachment removal), nothing is in flight or being read, and history,
\* displayHistory, appData and the other fields are what the constructor set.
C20_MissingCredentialIsTerminal ==
  apiKeyMissing =>
    /\ ~ENABLED (Next \/ NextWithFiles)
    /\ pending = <<>>
    /\ readers = <<>>
    /\ lastOp = Idle
    /\ history = <<>>
    /\ displayHistory = <<Greeting>>
    /\ appData = Null
    /\ attachment = NoAttachment
    /\ currentPrompt = <<>>
    /\ ~isLoading
    /\ error = NoError

\* C20 witness: a session constructed without the credential
C20_Witness ==
  /\ apiKeyMissing
  /\ ~ENABLED handleSendMessage
  /\ ~ENABLED handleBuildApp
  /\ ~ENABLED handleFileSelected
  /\ history = <<>>
  /\ pending = <<>>

\* the preview was rendered and the function returned a document
RenderedDocument ==
  lastOp.op = "getIframeContent" /\ lastOp.result = "returned" /\ lastOp.text # <<>>

\* piece i of the source is inside a line comment
InLineComment(js, i) == \E j \in 1..(i - 1) : js[j] = "//"

\* the source has an import statement: the keyword import outside a comment,
\* followed by a space or directly by the opening brace of its clause
HasImportStatement(js) ==
  \E i \in 1..Len(js) :
     /\ ~InLineComment(js, i)
     /\ \/ js[i] = "import "
        \/ js[i] = "import" /\ i < Len(js) /\ js[i + 1] \in {" ", "{a}from'm';"}

\* C21: the document wraps the artifact's JavaScript as a module script exactly
\* when the source contains an import statement and as a classic script
\* otherwise, for every source.
C21_ModuleExactlyWhenImport ==
  RenderedDocument =>
    LET js == lastOp.pre.appData.code.javascript IN
      /\ Includes(lastOp.text, "<script type=\"module\">") <=> HasImportStatement(js)
      /\ Includes(lastOp.text, "<script>") <=> ~HasImportStatement(js)

\* C21, for sources without comments whose import keyword is followed by a
\* space: the script tag is as stated
C21_ModuleForSpacedImport ==
  (RenderedDocument
     /\ ~Includes(lastOp.pre.appData.code.javascript, "//")
     /\ ~ContainsSeq(lastOp.pre.appData.code.javascript, <<"import", "{a}from'm';">>))
    => C21_ModuleExactlyWhenImport

\* the pieces occur in s one after the other, each as a contiguous run, in the
\* order given
RECURSIVE OccurInOrder(_, _)
OccurInOrder(s, pieces) ==
  \/ pieces = <<>>
  \/ \E i \in 0..(Len(s) - Len(Head(pieces))) :
        /\ SubSeq(s, i + 1, i + Len(Head(pieces))) = Head(pieces)
        /\ OccurInOrder(SubSeq(s, i + Len(Head(pieces)) + 1, Len(s)), Tail(pieces))

\* a font name with every space replaced by '+'
PlusForSpace(name) == [i \in 1..Len(name) |-> IF name[i] = " " THEN "+" ELSE name[i]]

\* the parts of the document of artifact v, in their order
DocumentParts(v) ==
  << PlusForSpace(v.theme.headerFont), PlusForSpace(v.theme.bodyFont),
     <<"--website-bg-color: ">> \o v.theme.backgroundColor,
     <<"--website-primary-color: ">> \o v.theme.primaryColor,
     <<"--website-text-color: ">> \o v.theme.textColor,
     <<"--website-header-font: '">> \o v.theme.headerFont,
     <<"--website-body-font: '">> \o v.theme.bodyFont,
     BaselineStylesheet, v.code.css, <<"</style>">>, v.code.html,
     v.code.javascript, <<"</script>">> >>

\* C22: rendering the preview changes no field; the result is the empty string
\* when appData is null, and otherwise one document with the font link (spaces
\* of both font names replaced by '+'), the five theme custom properties, the
\* baseline stylesheet, the artifact's CSS, its HTML and its script in that
\* order, each artifact string as it is.
C22_PreviewDocument ==
  lastOp.op = "getIframeContent" =>
    /\ appData = lastOp.pre.appData
    /\ history = lastOp.pre.history
    /\ displayHistory = lastOp.pre.displayHistory
    /\ isLoading = lastOp.pre.isLoading
    /\ lastOp.text = getIframeContent(appData).text
    /\ lastOp.result = "returned"
    /\ IF appData = Null
         THEN lastOp.text = <<>>
         ELSE /\ lastOp.text # <<>>
              /\ OccurInOrder(lastOp.text, DocumentParts(appData))

\* C22, for an artifact with every field of AppData: the document is as stated
C22_DocumentOfFullArtifact ==
  (lastOp.op = "getIframeContent" /\ (appData = Null \/ FullyPopulated(appData)))
    => C22_PreviewDocument

\* C23: in every state with an artifact (appData not null) no display message
\* offers Build (none has proposeBuild true with buildCompleted unset), also
\* when several replies carried the marker before the first Build.
C23_NoBuildOfferWithArtifact ==
  appData # Null => \A i \in 1..Len(displayHistory) : ~BuildOffered(displayHistory[i])

\* with an artifact only proposals made before it was built can offer Build:
\* no reply after the first Build adds a proposal
C23_NoNewOfferWithArtifact ==
  (Truthy(appData) /\ RepliedChat) => lastOp.pre.appData = Null

\* the in-progress status messages
StatusMessages == {BuildingStatus, UpdatingStatus}

\* the positions of the transcript that hold a status message
StatusPositions == {i \in 1..Len(displayHistory) : displayHistory[i] \in StatusMessages}

\* C24: whenever isLoading is false displayHistory holds no in-progress status
\* message, after any sequence of successful and failed actions; while a Build
\* or modification request is pending it holds exactly one, as its last entry.
C24_StatusOnlyWhilePending ==
  /\ ~isLoading => StatusPositions = {}
  /\ (pending # <<>> /\ pending[1].handler \in {"handleBuildApp", "handleModificationRequest"})
       => StatusPositions = {Len(displayHistory)}

\* C24 witness: idle after a Build that succeeded and a modification that
\* failed, with no status message left
C24_Witness ==
  /\ Failed
  /\ lastOp.handler = "handleModificationRequest"
  /\ ~isLoading
  /\ Len(history) >= 3
  /\ StatusPositions = {}

\* C25: while a generation request is in flight the pending attachment is
\* null: a read started before a send whose onload fires after the send was
\* accepted does not make an attachment pending during the request.
C25_NoAttachmentWhileInFlight ==
  pending # <<>> => attachment = NoAttachment

\* the last step was a call of handleSendMessage that returned early
IgnoredSend == lastOp.op = "handleSendMessage" /\ lastOp.result = "noop"

\* the parts of the user turn the accepted send prepared
SentParts ==
  IF lastOp.handler = "handleSendMessage"
    THEN lastOp.request.currentHistory[Len(lastOp.request.currentHistory)].parts
    ELSE lastOp.request.historyUserParts

\* C26: a send with a prompt that is empty after trimming and no pending
\* attachment changes nothing and issues no call, with or without an artifact;
\* a send is accepted when idle exactly when there is text or an attachment,
\* and one with an attachment and no text prepares a user turn of the
\* attachment part alone.
C26_EmptySendAndAttachmentOnly ==
  /\ IgnoredSend =>
       /\ lastOp.pre.isLoading
            \/ (Trim(lastOp.pre.currentPrompt) = <<>> /\ ~lastOp.pre.attachment.present)
       /\ history = lastOp.pre.history
       /\ displayHistory = lastOp.pre.displayHistory
       /\ appData = lastOp.pre.appData
       /\ error = lastOp.pre.error
       /\ currentPrompt = lastOp.pre.currentPrompt
       /\ attachment = lastOp.pre.attachment
       /\ isLoading = lastOp.pre.isLoading
       /\ issued = lastOp.pre.issued
  /\ AcceptedSend =>
       /\ ~lastOp.pre.isLoading
       /\ SentEntry.text # <<>> \/ lastOp.pre.attachment.present
  /\ (AcceptedSend /\ lastOp.result = "issued" /\ SentEntry.text = <<>>) =>
       /\ Len(SentParts) = 1
       /\ SentParts[1].inlineData
       /\ SentParts[1].mimeType = lastOp.pre.attachment.fileType
       /\ SentParts[1].text = <<>>

\* C26 witness: with an artifact, a send with a blank prompt and no attachment
\* was ignored while idle
C26_Witness ==
  /\ IgnoredSend
  /\ ~lastOp.pre.isLoading
  /\ lastOp.pre.currentPrompt = <<" ">>
  /\ ~lastOp.pre.attachment.present
  /\ Truthy(appData)
  /\ pending = <<>>

\* the last step was the end of an accepted generate
GenerateFinished == Replied /\ lastOp.handler = "handleGenerateClick"

\* C27: in the single-shot generator handleGenerateClick changes nothing when
\* the prompt is empty or isLoading is true; after every accepted generate has
\* finished isLoading is false and exactly one of appData and error is not
\* null: appData on success, the fixed failure message on any failure.
C27_GenerateOutcome ==
  /\ (lastOp.op = "handleGenerateClick" /\ lastOp.result = "noop") =>
       /\ lastOp.pre.currentPrompt = <<>> \/ lastOp.pre.isLoading
       /\ currentPrompt = lastOp.pre.currentPrompt
       /\ isLoading = lastOp.pre.isLoading
       /\ error = lastOp.pre.error
       /\ appData = lastOp.pre.appData
       /\ issued = lastOp.pre.issued
  /\ (lastOp.op = "handleGenerateClick" /\ lastOp.result = "issued") =>
       /\ currentPrompt # <<>>
       /\ ~lastOp.pre.isLoading
  /\ GenerateFinished =>
       /\ ~isLoading
       /\ (appData # Null) # (error # NoError)
       /\ lastOp.result = "ok" => (appData # Null /\ error = NoError)
       /\ lastOp.result \in {"threw", "rejected"} =>
            (appData = Null /\ error = MsgGenerateFailed)

\* C27, for every response other than the JSON text `null`: the outcome is as
\* stated
C27_OutcomeUnlessNullResponse ==
  ~(GenerateFinished /\ lastOp.result = "ok" /\ Trim(lastOp.text) = <<"null">>)
    => C27_GenerateOutcome

====
